---- MODULE Spec2Model ----
(***************************************************************************)
(* Client-side session store, authenticated request pipeline, login flow, *)
(* route guard and notification store of the Eye-Disease-Detection        *)
(* front end.                                                              *)
(*                                                                         *)
(* Strings are sequences of atoms: an atom is a word or a run of          *)
(* characters that the code's substring and regular-expression tests      *)
(* treat as a unit ("Bearer", " ", "password", "token", ...).  A fixed    *)
(* message of the code is a one-atom sequence.                             *)
(***************************************************************************)
EXTENDS Integers, Sequences, FiniteSets, TLC

\* ------------------------------------------------------------------ bounds
MaxReq == 1        \* requests in flight, the login request included
MaxUploads == 2    \* image analyses of the dashboard in flight
MaxClock == 1      \* no handler starts after this instant (ms)
MaxTimers == 3     \* pending timer callbacks of the notification store

\* ----------------------------------------------------------------- strings
\* String.prototype.toLowerCase, atom by atom
Lower(a) ==
  CASE a = "Bearer"   -> "bearer"
    [] a = "BEARER"   -> "bearer"
    [] a = "Password" -> "password"
    [] a = "Invalid " -> "invalid "
    [] OTHER          -> a

ToLowerCase(s) == [i \in 1..Len(s) |-> Lower(s[i])]

\* String.prototype.includes for a one-atom needle
Includes(s, a) == \E i \in 1..Len(s) : s[i] = a

\* \s of a regular expression
IsSpace(a) == a = " "

\* number of whitespace atoms of s starting at position i
RECURSIVE SpaceRun(_, _)
SpaceRun(s, i) ==
  IF i <= Len(s) /\ IsSpace(s[i]) THEN 1 + SpaceRun(s, i + 1) ELSE 0

\* s.startsWith('Bearer ')
StartsWithBearer(s) == Len(s) >= 2 /\ s[1] = "Bearer" /\ s[2] = " "

\* a truthy string: non-empty
Truthy(s) == s # <<>>

\* ----------------------------------------------------------- localStorage
\* localStorage is a partial function from keys to strings; getItem of a
\* missing key is null, which the code only ever tests for truthiness.
SetItem(ls, k, v) == [x \in (DOMAIN ls) \cup {k} |-> IF x = k THEN v ELSE ls[x]]

RemoveItem(ls, k) == [x \in (DOMAIN ls) \ {k} |-> ls[x]]

HasItem(ls, k) == k \in DOMAIN ls

EmptyStorage == [x \in {} |-> <<>>]

\* ------------------------------------------------------ AuthService (v2)
\* token.replace(/^Bearer\s+/i, ''): one leading scheme word, any case,
\* followed by one or more whitespace characters, is removed once.
StripBearer(token) ==
  IF Len(token) >= 2 /\ Lower(token[1]) = "bearer" /\ IsSpace(token[2])
    THEN SubSeq(token, 2 + SpaceRun(token, 2), Len(token))
    ELSE token

setToken(ls, token) ==
  LET cleanToken == StripBearer(token)
  IN  SetItem(SetItem(ls, "jwt_token", cleanToken), "isAuthenticated", <<"true">>)

removeTokenMutC2(ls) == RemoveItem(ls, "jwt_token")

removeTokenMutC14(ls) == RemoveItem(ls, "isAuthenticated")

removeToken(ls) == RemoveItem(RemoveItem(ls, "jwt_token"), "isAuthenticated")

\* !!getToken(): the key is present and its value is a non-empty string
hasToken(ls) == HasItem(ls, "jwt_token") /\ Truthy(ls["jwt_token"])

isAuthenticatedMutC4(ls) ==
  HasItem(ls, "isAuthenticated") /\ ls["isAuthenticated"] = <<"true">>

isAuthenticated(ls) ==
  /\ HasItem(ls, "isAuthenticated") /\ ls["isAuthenticated"] = <<"true">>
  /\ hasToken(ls)

\* --------------------------------------------------------------- messages
MsgNotAuthenticated  == <<"Not authenticated">>
MsgSessionExpired    == <<"Session expired. Please login again.">>
MsgSessionExpiredApi == <<"Your session has expired. Please login again.">>
MsgForbidden         == <<"You do not have permission to perform this action.">>
MsgNotFound          == <<"The requested resource was not found.">>
MsgServerError       == <<"Server error. Please try again later.">>
MsgSomethingWrong    == <<"Something went wrong. Please try again.">>
MsgFailedToFetch     == <<"Failed to fetch">>
MsgUserIdNotFound    == <<"User ID not found. Please log in again.">>
MsgInvalidLogin      == <<"Invalid username or ", "password">>
MsgProcessAuth       == <<"Failed to process authentication response">>
MsgFormatError       == <<"Server response format error. Please contact support.">>
MsgMapNotFunction    == <<"data.map is not a function">>

\* Reading a body a second time rejects with a TypeError whose text is the
\* browser's (Chromium, Gecko, WebKit).
BodyUsedMessages ==
  { <<"Failed to execute 'text' on 'Response': body stream already read">>,
    <<"Response.text: Body has already been consumed.">>,
    <<"Body is disturbed or locked">> }

\* ------------------------------------------------------------- responses
TextBody(t) ==
  [kind |-> "text", text |-> t, message |-> <<>>, token |-> <<>>, access_token |-> <<>>]

\* a JSON object; an empty field value stands for an absent (or empty)
\* field, which the code cannot tell apart: it tests fields for truthiness
JsonBody(m, tk, at) ==
  [kind |-> "json", text |-> <<>>, message |-> m, token |-> tk, access_token |-> at]

ArrayBody ==
  [kind |-> "array", text |-> <<>>, message |-> <<>>, token |-> <<>>, access_token |-> <<>>]

Response(st, ct, b) == [status |-> st, ctype |-> ct, body |-> b]

NoResp == Response(0, "none", TextBody(<<>>))

\* response.ok
Ok(resp) == resp.status >= 200 /\ resp.status <= 299

\* contentType && contentType.includes('application/json')
IsJsonType(resp) == resp.ctype = "json"

\* the characters of the body as response.text() returns them
RawText(b) ==
  CASE b.kind = "text"  -> b.text
    [] b.kind = "array" -> <<"[]">>
    [] OTHER ->
         <<"{">>
         \o (IF Truthy(b.message) THEN <<"message">> \o b.message ELSE <<>>)
         \o (IF Truthy(b.token) THEN <<"token">> \o b.token ELSE <<>>)
         \o (IF Truthy(b.access_token) THEN <<"access_token">> \o b.access_token ELSE <<>>)
         \o <<"}">>

\* JSON.parse succeeds on the body
JsonParses(b) == b.kind \in {"json", "array"}

\* the SyntaxError text of JSON.parse on a body that is not JSON
\* (V8 and SpiderMonkey word it differently)
SyntaxErrorMessages(b) ==
  IF RawText(b) = <<>>
    THEN { <<"Unexpected end of JSON input">>,
           <<"JSON.parse: unexpected end of data">> }
    ELSE { <<"Unexpected ", "token", " in JSON at position 0">>,
           <<"JSON.parse: unexpected character">> }

\* ------------------------------------------------- authFetch / apiRequest
\* authFetch, up to the fetch call: the error it throws, or the
\* Authorization header it sends
AuthFetchEntryMutC7(ls) ==
  [throws |-> FALSE,
   authorization |-> IF hasToken(ls) THEN <<"Bearer", " ">> \o ls["jwt_token"]
                     ELSE <<"Bearer", " ", "null">>]

AuthFetchEntry(ls) ==
  IF ~hasToken(ls)
    THEN [throws |-> TRUE, authorization |-> <<>>]
    ELSE LET token == ls["jwt_token"]
         IN  [throws |-> FALSE,
              authorization |-> IF StartsWithBearer(token) THEN token
                                ELSE <<"Bearer", " ">> \o token]

\* authFetch on a 401: the text it inspects.  json() of a body that is
\* not JSON throws, and the fallback text() of the consumed body is
\* caught and yields ''.
ResponseText401(resp) ==
  IF IsJsonType(resp)
    THEN IF JsonParses(resp.body)
           THEN (IF resp.body.kind = "json" THEN resp.body.message ELSE <<>>)
           ELSE <<>>
    ELSE RawText(resp.body)

\* responseText && responseText.toLowerCase().includes('password')
IsPasswordFailure(responseText) ==
  Truthy(responseText) /\ Includes(ToLowerCase(responseText), "password")

\* apiRequest on a 401 that authFetch returned to it: response.text() of a
\* body that was already read rejects; of an unread body it is inspected
\* as in authFetch, and an expiry clears the session and sets
\* window.location.href.
ApiRequest401(resp, bodyUsed, ls, loc, usedMsg) ==
  IF bodyUsed
    THEN [ls |-> ls, location |-> loc, err |-> usedMsg]
    ELSE IF IsPasswordFailure(RawText(resp.body))
           THEN [ls |-> ls, location |-> loc, err |-> RawText(resp.body)]
           ELSE [ls |-> removeToken(ls), location |-> "/login",
                 err |-> MsgSessionExpiredApi]

FixedStatusMessageMutC16(status) == MsgServerError

\* apiRequest on 403, 404 and 500
FixedStatusMessage(status) ==
  CASE status = 403 -> MsgForbidden
    [] status = 404 -> MsgNotFound
    [] OTHER        -> MsgServerError

\* ------------------------------------------------------------ getUserId
\* token.split('.'): the atoms between the "." atoms (tokens of the model
\* carry one atom per part)
Parts(token) ==
  IF Len(token) = 5 /\ token[2] = "." /\ token[4] = "." /\ token[1] # "."
     /\ token[3] # "." /\ token[5] # "."
    THEN <<token[1], token[3], token[5]>>
    ELSE IF Includes(token, ".") THEN <<>> ELSE <<token>>

\* a field of a decoded payload: the text that a template literal makes of
\* it, whether the payload has it, and whether JavaScript takes it for true
Absent  == [present |-> FALSE, truthy |-> FALSE, text |-> <<>>]
Str(s)  == [present |-> TRUE, truthy |-> s # <<>>, text |-> s]
Num(n)  == [present |-> TRUE, truthy |-> n # 0, text |-> <<ToString(n)>>]

Claims(id, userId, sub, user_id) ==
  [ok |-> TRUE, id |-> id, userId |-> userId, sub |-> sub, user_id |-> user_id]

\* JSON.parse(atob(base64)) of the middle part: the payloads that the
\* tokens of the model carry; any other part does not decode
DecodedPayload(part) ==
  CASE part = "payload.id"         -> Claims(Num(7), Absent, Absent, Absent)
    [] part = "payload.sub"        -> Claims(Absent, Absent, Str(<<"alice">>), Absent)
    [] part = "payload.id+userId"  -> Claims(Num(7), Str(<<"u9">>), Absent, Absent)
    [] part = "payload.userId+sub" -> Claims(Absent, Str(<<"u9">>), Str(<<"alice">>), Absent)
    [] part = "payload.user_id"    -> Claims(Absent, Absent, Absent, Num(42))
    [] part = "payload.id0+sub"    -> Claims(Num(0), Absent, Str(<<"alice">>), Absent)
    [] part = "payload.id0"        -> Claims(Num(0), Absent, Absent, Absent)
    [] part = "payload.name"       -> Claims(Absent, Absent, Absent, Absent)
    [] OTHER -> [ok |-> FALSE, id |-> Absent, userId |-> Absent, sub |-> Absent,
                 user_id |-> Absent]

\* getUserId: null ('' here) without a token, for a token that has not
\* three parts, for a payload that does not decode (the catch) and for a
\* payload in which none of the four fields is truthy
getUserId(ls) ==
  IF ~hasToken(ls) THEN <<>>
  ELSE LET parts == Parts(ls["jwt_token"])
       IN  IF Len(parts) # 3 THEN <<>>
           ELSE LET decodedPayload == DecodedPayload(parts[2])
                IN  IF ~decodedPayload.ok THEN <<>>
                    ELSE IF decodedPayload.id.truthy THEN decodedPayload.id.text
                    ELSE IF decodedPayload.userId.truthy THEN decodedPayload.userId.text
                    ELSE IF decodedPayload.sub.truthy THEN decodedPayload.sub.text
                    ELSE IF decodedPayload.user_id.truthy THEN decodedPayload.user_id.text
                    ELSE <<>>

\* ---------------------------------------------------------------- pages
MsgProfileLoad    == <<"Could not load profile data. Please try again later.">>
MsgProfileUpdated == <<"Profile updated successfully">>
MsgHistoryFailed  == <<"Failed to load analysis history. Please try again later.">>
MsgHistoryNetwork == <<"Network error while loading history. Please check your connection.">>
MsgHistoryTimeout ==
  <<"Request timed out while loading history. The server may be experiencing high load.">>
MsgLoggedOut      == <<"You have been successfully logged out">>
MsgLoginOk        == <<"Login successful!">>

MsgAnalyzing        == <<"Analyzing your eye image...">>
MsgAnalysisComplete == <<"Analysis complete!">>
MsgAnalysisError    == <<"Error analyzing image: 500 Internal Server Error">>
MsgAnalysisNetwork  ==
  <<"Network error. Please check your internet connection and try again.">>
MsgAnalysisTimeout  ==
  <<"Analysis timed out. The server might be busy, please try again later.">>
MsgAnalysisFormat   ==
  <<"The image format cannot be processed. Please try a different image.">>
MsgAnalysisUnexpected ==
  <<"An unexpected error occurred during image analysis. Please try again.">>

\* the catch of Dashboard.handleFileUpload: the message it shows
AnalysisNotice(err) ==
  IF Includes(err, "network") THEN MsgAnalysisNetwork
  ELSE IF Includes(err, "timeout") THEN MsgAnalysisTimeout
  ELSE IF Includes(err, "format") THEN MsgAnalysisFormat
  ELSE IF Truthy(err) THEN err
  ELSE MsgAnalysisUnexpected

Protected == {"/dashboard", "/profile"}

Routes == {"/login", "/dashboard", "/profile"}

ResolveMutC15(path, ls) ==
  IF path \in Protected
    THEN path
    ELSE (IF isAuthenticated(ls) THEN "/dashboard" ELSE "/login")

\* The route shown after navigate(path): ProtectedRoute sends an
\* unauthenticated visitor of a protected route to /login, and the mount
\* effect of Login sends an authenticated visitor to /dashboard.
Resolve(path, ls) ==
  IF path \in Protected
    THEN (IF isAuthenticated(ls) THEN path ELSE "/login")
    ELSE (IF isAuthenticated(ls) THEN "/dashboard" ELSE "/login")

\* What the page does with the outcome of its pipeline request: the alert
\* it raises, and the session and route it leaves.
PageOutcome(origin, ok, err, data, ls, loc) ==
  CASE origin = "profileFetch" ->
         IF ok THEN [ls |-> ls, location |-> loc, notices |-> <<>>]
         ELSE IF Includes(err, "unauthorized") \/ Includes(err, "token")
           THEN [ls |-> removeToken(ls),
                 location |-> Resolve("/login", removeToken(ls)),
                 notices |-> <<MsgProfileLoad>>]
           ELSE [ls |-> ls, location |-> loc, notices |-> <<MsgProfileLoad>>]
    [] origin = "profileUpdate" ->
         IF ok
           THEN [ls |-> ls, location |-> loc,
                 notices |-> <<IF data.kind = "json" /\ Truthy(data.message)
                                 THEN data.message ELSE MsgProfileUpdated>>]
           ELSE [ls |-> ls, location |-> loc, notices |-> <<err>>]
    [] origin = "store" ->
         \* analyzeEyeImage after storeAnalysisResult; Dashboard.handleFileUpload
         IF ok THEN [ls |-> ls, location |-> loc, notices |-> <<MsgAnalysisComplete>>]
         ELSE [ls |-> ls, location |-> loc, notices |-> <<AnalysisNotice(err)>>]
    [] OTHER ->
         \* getUserAnalysisHistory maps the array; Dashboard.fetchAnalysisHistory
         LET e == IF ok THEN (IF data.kind = "array" THEN <<>> ELSE MsgMapNotFunction)
                  ELSE err
         IN  IF e = <<>> THEN [ls |-> ls, location |-> loc, notices |-> <<>>]
             ELSE IF Includes(e, "network")
               THEN [ls |-> ls, location |-> loc, notices |-> <<MsgHistoryNetwork>>]
             ELSE IF Includes(e, "unauthorized")
               THEN [ls |-> removeToken(ls),
                     location |-> Resolve("/login", removeToken(ls)),
                     notices |-> <<MsgSessionExpiredApi>>]
             ELSE [ls |-> ls, location |-> loc, notices |-> <<MsgHistoryFailed>>]

\* ------------------------------------------------------------ the server
\* answers of the profile and file API to a pipeline request
PipelineResponses ==
  { Response(200, "json", JsonBody(<<>>, <<>>, <<>>)),
    Response(200, "json", JsonBody(<<"Profile saved">>, <<>>, <<>>)),
    Response(200, "json", ArrayBody),
    Response(200, "json", TextBody(<<"<html>">>)),
    Response(200, "text", TextBody(<<"OK">>)),
    Response(401, "text", TextBody(<<"Invalid ", "password">>)),
    Response(401, "json", JsonBody(<<"Password", " incorrect">>, <<>>, <<>>)),
    Response(401, "text", TextBody(<<"Unauthorized">>)),
    Response(401, "text", TextBody(<<>>)),
    Response(401, "json", TextBody(<<"<html>">>)),
    Response(401, "json", JsonBody(<<>>, <<>>, <<>>)),
    Response(403, "text", TextBody(<<"Forbidden">>)),
    Response(404, "json", JsonBody(<<"no such user">>, <<>>, <<>>)),
    Response(500, "text", TextBody(<<"Invalid ", "password">>)),
    Response(400, "json", JsonBody(<<"Bad request">>, <<>>, <<>>)),
    Response(400, "json", JsonBody(<<>>, <<>>, <<>>)),
    Response(400, "text", TextBody(<<>>)),
    Response(400, "text", TextBody(<<"invalid ", "token">>)),
    Response(400, "json", TextBody(<<"<html>">>)) }

\* tokens the login endpoint hands out
Jwt == <<"header", ".", "payload.sub", ".", "signature">>

\* answers of POST /users/login
LoginResponses ==
  { Response(200, "json", JsonBody(<<>>, Jwt, <<>>)),
    Response(200, "json", JsonBody(<<>>, <<>>, <<"bearer", " ", " ">> \o Jwt)),
    Response(200, "json", JsonBody(<<>>, <<"Bearer", " ">>, <<>>)),
    Response(200, "json", JsonBody(<<"welcome">>, <<>>, <<>>)),
    Response(200, "json", TextBody(<<"<html>">>)),
    Response(200, "text", TextBody(<<"Bearer", " ", "opaque">>)),
    Response(200, "text", TextBody(<<"Bearer", " ", "Bearer", " ", "opaque">>)),
    Response(200, "text", TextBody(<<>>)),
    Response(401, "json", JsonBody(<<"Bad credentials">>, <<>>, <<>>)),
    Response(401, "json", JsonBody(<<>>, <<>>, <<>>)),
    Response(401, "json", TextBody(<<"<html>">>)),
    Response(500, "text", TextBody(<<>>)) }

\* the TypeError text of a fetch that fails on the network
FetchErrorMessages ==
  { MsgFailedToFetch, <<"NetworkError when attempting to fetch resource.">> }

\* ------------------------------------------------------------------ state
VARIABLES
  localStorage,   \* the browser's persistent key-value storage
  location,       \* the route the router shows
  reqs,           \* the pipeline requests in flight, by slot
  lg,             \* the login request in flight
  out,            \* what the last step delivered: outcome, alerts raised
  alerts,         \* the state of AlertProvider: the visible alerts, in order
  timers,         \* the pending setTimeout callbacks of addAlert, in creation order
  now,            \* Date.now()
  uploads,        \* the analyses in flight, each with the render it started in
  dash,           \* the state of the Dashboard component
  ret             \* the last call of addAlert: its arguments and return value

sessionVars == <<localStorage, location, reqs, lg, out>>

alertVars == <<alerts, timers, now, uploads, dash, ret>>

vars == <<localStorage, location, reqs, lg, out, alerts, timers, now, uploads, dash, ret>>

Slots == 1..MaxReq

\* snap: the alerts of the render whose closures the callbacks of the
\* request keep (only the profile page's specification follows it)
FreeReq ==
  [pc |-> "free", origin |-> "none", url |-> <<>>, resp |-> NoResp,
   bodyUsed |-> FALSE, authorization |-> <<>>, settled |-> FALSE, snap |-> <<>>]

\* the endpoint of the request of each origin
Endpoint(origin, ls) ==
  CASE origin = "profileFetch"  -> <<"/users/profile">>
    [] origin = "profileUpdate" -> <<"/users/update">>
    [] OTHER                    -> <<"/files/">> \o getUserId(ls)

IdleLogin == [pc |-> "idle", resp |-> NoResp]

Out(kind, origin, resp, ok, err, notices, sent) ==
  [kind |-> kind, origin |-> origin, resp |-> resp, ok |-> ok, err |-> err,
   notices |-> notices, sent |-> sent]

NoOut == Out("none", "none", NoResp, FALSE, <<>>, <<>>, FALSE)

HasFree(rq) == \E r \in Slots : rq[r].pc = "free"

FreeSlot(rq) == CHOOSE r \in Slots : rq[r].pc = "free"

InFlight(rq, origins) == \E r \in Slots : rq[r].pc # "free" /\ rq[r].origin \in origins

\* a further request may go out: the model follows at most MaxReq requests
\* in flight, the login request included
MayRequest ==
  Cardinality({r \in Slots : reqs[r].pc # "free"})
    + (IF lg.pc = "idle" THEN 0 ELSE 1) < MaxReq

\* The page calls its request function (fetchUserProfile, handleSubmit's
\* patch, fetchAnalysisHistory): the call fails at once, with the page's
\* handling of the failure, or a request goes out.
Call(origin, ls, loc, rq) ==
  LET entry == AuthFetchEntry(ls)
      early == IF origin = "history" /\ ~Truthy(getUserId(ls))
                 THEN MsgUserIdNotFound
               ELSE IF entry.throws THEN MsgNotAuthenticated
               ELSE <<>>
  IN  IF early # <<>>
        THEN LET po == PageOutcome(origin, FALSE, early, NoResp.body, ls, loc)
             IN  [ls |-> po.ls, location |-> po.location, reqs |-> rq,
                  notices |-> po.notices, sent |-> FALSE, err |-> early]
        ELSE [ls |-> ls, location |-> loc,
              reqs |-> [rq EXCEPT ![FreeSlot(rq)] =
                          [pc |-> "fetch", origin |-> origin,
                           url |-> Endpoint(origin, ls), resp |-> NoResp,
                           bodyUsed |-> FALSE,
                           authorization |-> entry.authorization,
                           settled |-> FALSE, snap |-> <<>>]],
              notices |-> <<>>, sent |-> TRUE, err |-> <<>>]

\* navigate(path): the route shown and the mount effect of its page
Arrive(path, ls, rq) ==
  LET target == Resolve(path, ls)
  IN  CASE target = "/profile"   -> Call("profileFetch", ls, target, rq)
        [] target = "/dashboard" -> Call("history", ls, target, rq)
        [] OTHER -> [ls |-> ls, location |-> target, reqs |-> rq,
                     notices |-> <<>>, sent |-> FALSE, err |-> <<>>]

SessionInit ==
  /\ localStorage = EmptyStorage
  /\ location = "/login"
  /\ reqs = [r \in Slots |-> FreeReq]
  /\ lg = IdleLogin
  /\ out = NoOut

\* the call sends a request (and needs a slot of the model)
Sends(origin, ls) ==
  /\ ~AuthFetchEntry(ls).throws
  /\ origin = "history" => Truthy(getUserId(ls))

ArriveSends(path, ls) ==
  LET target == Resolve(path, ls)
  IN  \/ target = "/profile" /\ Sends("profileFetch", ls)
      \/ target = "/dashboard" /\ Sends("history", ls)

\* ------------------------------------------------------- pipeline actions
\* A link, the address bar or the back button takes the user to a route.
NavigateTo(path) ==
  /\ UNCHANGED alertVars
  /\ path # location
  /\ ArriveSends(path, localStorage) => MayRequest
  /\ LET a == Arrive(path, localStorage, reqs)
     IN  /\ localStorage' = a.ls
         /\ location' = a.location
         /\ reqs' = a.reqs
         /\ out' = Out("nav", path, NoResp, ~Truthy(a.err), a.err, a.notices, a.sent)
  /\ UNCHANGED lg

\* Profile.handleSubmit with a form that passes validation: PATCH
\* /users/update.  The button is disabled while the page is loading.
ProfileSubmit ==
  /\ UNCHANGED alertVars
  /\ location = "/profile"
  /\ ~InFlight(reqs, {"profileFetch", "profileUpdate"})
  /\ Sends("profileUpdate", localStorage) => MayRequest
  /\ LET c == Call("profileUpdate", localStorage, location, reqs)
     IN  /\ localStorage' = c.ls
         /\ location' = c.location
         /\ reqs' = c.reqs
         /\ out' = Out("call", "profileUpdate", NoResp, ~Truthy(c.err), c.err,
                       c.notices, c.sent)
  /\ UNCHANGED lg

\* The promise of apiRequest settles in slot r: the slot is released and
\* the page that made the request handles the outcome, unless the history
\* race was already lost to the timeout.
Complete(r, resp, ok, err, ls, loc) ==
  LET q  == reqs[r]
      po == IF q.settled
              THEN [ls |-> ls, location |-> loc, notices |-> <<>>]
              ELSE PageOutcome(q.origin, ok, err, resp.body, ls, loc)
      \* the then of handleFileUpload ends with fetchAnalysisHistory()
      refresh == q.origin = "store" /\ ok
      c  == Call("history", po.ls, po.location, [reqs EXCEPT ![r] = FreeReq])
  IN  /\ localStorage' = IF refresh THEN c.ls ELSE po.ls
      /\ location' = IF refresh THEN c.location ELSE po.location
      /\ reqs' = IF refresh THEN c.reqs ELSE [reqs EXCEPT ![r] = FreeReq]
      /\ out' = Out("api", q.origin, resp, ok, err,
                    IF refresh THEN po.notices \o c.notices ELSE po.notices, TRUE)
      /\ UNCHANGED lg
      /\ UNCHANGED alertVars

\* fetch resolves with the server's response: authFetch starts reading the
\* body of a 401 and hands any other response to apiRequest, which reads
\* the body of a 2xx or of an unlisted error status and throws on 403,
\* 404 and 500.
FetchResolve(r, resp) ==
  /\ reqs[r].pc = "fetch"
  /\ IF resp.status = 401
       THEN /\ reqs' = [reqs EXCEPT ![r].pc = "auth401", ![r].resp = resp,
                                    ![r].bodyUsed = TRUE]
            /\ out' = NoOut
            /\ UNCHANGED <<localStorage, location, lg, alerts, timers, now, uploads, dash, ret>>
     ELSE IF Ok(resp)
       THEN /\ reqs' = [reqs EXCEPT ![r].pc = "readOk", ![r].resp = resp,
                                    ![r].bodyUsed = TRUE]
            /\ out' = NoOut
            /\ UNCHANGED <<localStorage, location, lg, alerts, timers, now, uploads, dash, ret>>
     ELSE IF resp.status \in {403, 404, 500}
       THEN Complete(r, resp, FALSE, FixedStatusMessage(resp.status),
                     localStorage, location)
     ELSE /\ reqs' = [reqs EXCEPT ![r].pc = "readErr", ![r].resp = resp,
                                  ![r].bodyUsed = TRUE]
          /\ out' = NoOut
          /\ UNCHANGED <<localStorage, location, lg, alerts, timers, now, uploads, dash, ret>>

\* fetch rejects: the network failed
FetchReject(r) ==
  /\ reqs[r].pc = "fetch"
  /\ \E m \in FetchErrorMessages :
       Complete(r, NoResp, FALSE, m, localStorage, location)

\* authFetch has read the body of the 401.  A password failure is returned
\* to apiRequest, whose own 401 branch reads the body again; anything else
\* is a session expiry: removeToken and throw.
Auth401Read(r) ==
  /\ reqs[r].pc = "auth401"
  /\ LET resp == reqs[r].resp
     IN  IF IsPasswordFailure(ResponseText401(resp))
           THEN \E m \in BodyUsedMessages :
                  LET a == ApiRequest401(resp, reqs[r].bodyUsed, localStorage,
                                         location, m)
                  IN  Complete(r, resp, FALSE, a.err, a.ls, a.location)
           ELSE Complete(r, resp, FALSE, MsgSessionExpired,
                         removeToken(localStorage), location)

\* apiRequest has read the body of a 2xx
ReadOk(r) ==
  /\ reqs[r].pc = "readOk"
  /\ LET resp == reqs[r].resp
     IN  IF IsJsonType(resp) /\ ~JsonParses(resp.body)
           THEN \E m \in SyntaxErrorMessages(resp.body) :
                  Complete(r, resp, FALSE, m, localStorage, location)
           ELSE Complete(r, resp, TRUE, <<>>, localStorage, location)

\* apiRequest has read the body of an error status other than 401, 403,
\* 404 and 500
ReadErr(r) ==
  /\ reqs[r].pc = "readErr"
  /\ LET resp == reqs[r].resp
         b    == resp.body
     IN  IF IsJsonType(resp)
           THEN IF JsonParses(b)
                  THEN Complete(r, resp, FALSE,
                                IF b.kind = "json" /\ Truthy(b.message)
                                  THEN b.message ELSE MsgSomethingWrong,
                                localStorage, location)
                  ELSE \E m \in SyntaxErrorMessages(b) :
                         Complete(r, resp, FALSE, m, localStorage, location)
           ELSE Complete(r, resp, FALSE,
                         IF Truthy(RawText(b)) THEN RawText(b) ELSE MsgSomethingWrong,
                         localStorage, location)

\* The 15-second timer of Dashboard.fetchAnalysisHistory wins the race:
\* the page reports the timeout and no longer listens to the request.
HistoryTimeout(r) ==
  /\ UNCHANGED alertVars
  /\ reqs[r].pc # "free" /\ reqs[r].origin = "history" /\ ~reqs[r].settled
  /\ reqs' = [reqs EXCEPT ![r].settled = TRUE]
  /\ out' = Out("timeout", "history", NoResp, FALSE, <<"Request timeout">>,
                <<MsgHistoryTimeout>>, FALSE)
  /\ UNCHANGED <<localStorage, location, lg, alerts, timers, now, uploads, dash, ret>>

\* ------------------------------------------------------- image analysis
\* what analyzeEyeImage throws when the inference request fails: the
\* TypeError of fetch, or the message made from a non-2xx answer
InferenceErrors == FetchErrorMessages \cup {MsgAnalysisError}

\* Dashboard.handleFileUpload with a file that passes validateImageFile:
\* info('Analyzing your eye image...', 2000) and analyzeEyeImage, which
\* posts the file to the inference endpoint with a plain fetch.
AnalyzeSubmit ==
  /\ UNCHANGED alertVars
  /\ location = "/dashboard"
  /\ MayRequest
  /\ reqs' = [reqs EXCEPT ![FreeSlot(reqs)] =
                [pc |-> "infer", origin |-> "store",
                 url |-> <<"http://localhost:8000/predict/">>, resp |-> NoResp,
                 bodyUsed |-> FALSE, authorization |-> <<>>, settled |-> FALSE,
                 snap |-> <<>>]]
  /\ out' = Out("analyze", "store", NoResp, TRUE, <<>>, <<MsgAnalyzing>>, FALSE)
  /\ UNCHANGED <<localStorage, location, lg>>

\* The inference request fails: analyzeEyeImage rethrows and the catch of
\* handleFileUpload shows the error.
InferenceReject(r) ==
  /\ UNCHANGED alertVars
  /\ reqs[r].pc = "infer"
  /\ \E m \in InferenceErrors :
       out' = Out("analysis", "store", NoResp, FALSE, m, <<AnalysisNotice(m)>>, FALSE)
  /\ reqs' = [reqs EXCEPT ![r] = FreeReq]
  /\ UNCHANGED <<localStorage, location, lg>>

\* The inference endpoint answers 2xx with a prediction: analyzeEyeImage
\* awaits storeAnalysisResult, which throws without a user id and
\* otherwise posts the result to /files/{userId} through ApiInterceptor.
InferenceResolve(r) ==
  /\ UNCHANGED alertVars
  /\ reqs[r].pc = "infer"
  /\ LET userId == getUserId(localStorage)
         entry  == AuthFetchEntry(localStorage)
     IN  IF ~Truthy(userId)
           THEN /\ reqs' = [reqs EXCEPT ![r] = FreeReq]
                /\ out' = Out("analysis", "store", NoResp, FALSE, MsgUserIdNotFound,
                              <<AnalysisNotice(MsgUserIdNotFound)>>, FALSE)
           ELSE /\ reqs' = [reqs EXCEPT ![r].pc = "fetch",
                                        ![r].url = Endpoint("store", localStorage),
                                        ![r].authorization = entry.authorization]
                /\ out' = Out("store", "store", NoResp, TRUE, <<>>, <<>>, TRUE)
  /\ UNCHANGED <<localStorage, location, lg>>

\* Header.handleLogout, on a page that shows the header
Logout ==
  /\ UNCHANGED alertVars
  /\ location \in Protected
  /\ localStorage' = removeToken(localStorage)
  /\ location' = Resolve("/login", removeToken(localStorage))
  /\ out' = Out("logout", "none", NoResp, TRUE, <<>>, <<MsgLoggedOut>>, FALSE)
  /\ UNCHANGED <<reqs, lg>>

\* ----------------------------------------------------------------- login
\* error.message.includes('Unexpected token')
IncludesUnexpectedToken(m) ==
  \E i \in 1..(Len(m) - 1) : m[i] = "Unexpected " /\ m[i + 1] = "token"

\* the outer catch of login
LoginRethrow(m) == IF IncludesUnexpectedToken(m) THEN MsgFormatError ELSE m

\* login on a 2xx whose body has been read: the token it stores, or the
\* error it throws.  A JSON body without token and access_token, and a body
\* that does not parse, end in the inner catch.
LoginToken(resp) ==
  LET b == resp.body
  IN  IF IsJsonType(resp)
        THEN IF JsonParses(b) /\ Truthy(b.token)
               THEN [ok |-> TRUE, token |-> b.token]
             ELSE IF JsonParses(b) /\ Truthy(b.access_token)
               THEN [ok |-> TRUE, token |-> b.access_token]
             ELSE [ok |-> FALSE, token |-> <<>>]
        ELSE [ok |-> TRUE, token |-> RawText(b)]

\* Login.handleSubmit with a form that passes validateForm: POST
\* /users/login with Basic credentials.  The button is disabled while the
\* request is pending.
LoginSubmit ==
  /\ UNCHANGED alertVars
  /\ location = "/login"
  /\ lg.pc = "idle"
  /\ MayRequest
  /\ lg' = [pc |-> "fetch", resp |-> NoResp]
  /\ out' = Out("loginSent", "login", NoResp, FALSE, <<>>, <<>>, TRUE)
  /\ UNCHANGED <<localStorage, location, reqs>>

LoginRejectedMutC28(resp, m) ==
  /\ UNCHANGED alertVars
  /\ lg' = IdleLogin
  /\ out' = Out("login", "login", resp, FALSE, m, <<m>>, TRUE)
  /\ localStorage' = removeToken(localStorage)
  /\ UNCHANGED <<location, reqs>>

\* login rejects with message m: the page shows it
LoginRejected(resp, m) ==
  /\ UNCHANGED alertVars
  /\ lg' = IdleLogin
  /\ out' = Out("login", "login", resp, FALSE, m, <<m>>, TRUE)
  /\ UNCHANGED <<localStorage, location, reqs>>

LoginFetchResolve(resp) ==
  /\ UNCHANGED alertVars
  /\ lg.pc = "fetch"
  /\ lg' = [pc |-> IF Ok(resp) THEN "readOk" ELSE "readErr", resp |-> resp]
  /\ out' = NoOut
  /\ UNCHANGED <<localStorage, location, reqs>>

LoginFetchReject ==
  /\ lg.pc = "fetch"
  /\ \E m \in FetchErrorMessages : LoginRejected(NoResp, LoginRethrow(m))

\* the body of a non-2xx answer has been read
LoginReadErr ==
  /\ lg.pc = "readErr"
  /\ LET resp == lg.resp
         b    == resp.body
     IN  IF IsJsonType(resp)
           THEN IF JsonParses(b)
                  THEN LoginRejected(resp, LoginRethrow(
                         IF b.kind = "json" /\ Truthy(b.message)
                           THEN b.message ELSE MsgInvalidLogin))
                  ELSE \E m \in SyntaxErrorMessages(b) :
                         LoginRejected(resp, LoginRethrow(m))
           ELSE LoginRejected(resp, LoginRethrow(
                  IF Truthy(RawText(b)) THEN RawText(b) ELSE MsgInvalidLogin))

\* the body of a 2xx answer has been read: setToken, and the page's then:
\* success('Login successful!') and navigate('/dashboard')
LoginReadOk ==
  /\ lg.pc = "readOk"
  /\ LET resp == lg.resp
         t    == LoginToken(resp)
     IN  IF ~t.ok
           THEN LoginRejected(resp, LoginRethrow(MsgProcessAuth))
           ELSE LET ls == setToken(localStorage, t.token)
                IN  /\ ArriveSends("/dashboard", ls) => HasFree(reqs)
                    /\ LET a == Arrive("/dashboard", ls, reqs)
                       IN  /\ localStorage' = a.ls
                           /\ location' = a.location
                           /\ reqs' = a.reqs
                           /\ lg' = IdleLogin
                           /\ out' = Out("login", "login", resp, TRUE, <<>>,
                                         <<MsgLoginOk>> \o a.notices, a.sent)
                           /\ UNCHANGED alertVars

\* ------------------------------------------------------ AlertContext.js
DefaultTimeout    == 5000
ValidationTimeout == 3000
AnalyzingTimeout  == 2000

MsgFixValidation    == <<"Please fix the validation errors to continue">>

\* alerts.some(alert => alert.message === message && alert.type === type),
\* over the alerts of the render whose closure is called
hasDuplicate(snap, message, type) ==
  \E i \in 1..Len(snap) : snap[i].message = message /\ snap[i].type = type

\* addAlert called through the closure of a render whose alerts were snap:
\* the new state, the new timers and the value returned (null or the id)
addAlert(snap, as, ts, clock, message, type, timeout) ==
  LET id       == clock
      newAlert == [id |-> id, message |-> message, type |-> type]
  IN  IF ~hasDuplicate(snap, message, type)
        THEN [alerts |-> Append(as, newAlert),
              timers |-> IF timeout > 0
                           THEN Append(ts, [id |-> id, due |-> clock + timeout,
                                            message |-> message, type |-> type])
                           ELSE ts,
              null |-> FALSE, id |-> id]
        ELSE [alerts |-> as, timers |-> ts, null |-> TRUE, id |-> 0]

\* prevAlerts.filter(alert => alert.id !== id)
removeAlertMutC12(as, id) == SelectSeq(as, LAMBDA a : a.id > id)

removeAlert(as, id) == SelectSeq(as, LAMBDA a : a.id # id)

\* ALERT_TYPES
AlertTypes == {"success", "error", "warning", "info", "validation"}

\* setAlerts([])
clearAlerts(as) == <<>>

\* prevAlerts.filter(alert => alert.type !== type)
clearAlertsByType(as, type) == SelectSeq(as, LAMBDA a : a.type # type)

RemoveAt(q, i) == SubSeq(q, 1, i - 1) \o SubSeq(q, i + 1, Len(q))

NoRet ==
  [called |-> FALSE, message |-> <<>>, type |-> "none", null |-> FALSE, id |-> 0,
   op |-> "none"]

Ret(message, type, r) ==
  [called |-> TRUE, message |-> message, type |-> type, null |-> r.null, id |-> r.id,
   op |-> "add"]

\* the last call was a removal: removeAlert(id) from a dismissal ("remove")
\* or a timer ("expire"), clearAlerts() ("clear"), clearAlertsByType(type)
\* ("clearType")
Removal(op, id, type) ==
  [called |-> FALSE, message |-> <<>>, type |-> type, null |-> FALSE, id |-> id,
   op |-> op]

\* latest: the analysis is that of the image uploaded last
FreeUpload == [pc |-> "free", snap |-> <<>>, latest |-> FALSE]

\* the state of a Dashboard that has just been created: isLoading,
\* analysisHistory ("empty" for []), isAnalyzing, and analysisResult: "none"
\* for null, "latest" for the result of the image uploaded last, "stale"
\* for the result of an earlier image
\* of its FileUpload: selectedFile and the error shown in the drop zone
NoFile == [type |-> "", size |-> 0]

NoDash ==
  [isLoading |-> FALSE, analysisHistory |-> "empty", isAnalyzing |-> FALSE,
   analysisResult |-> "none", selectedFile |-> NoFile, error |-> <<>>]

UploadSlots == 1..MaxUploads

\* alerts raised by handlers that run to completion: Login.validateForm
\* and Header.handleLogout
SyncAlerts ==
  { [message |-> MsgFixValidation, type |-> "validation", timeout |-> ValidationTimeout],
    [message |-> MsgLoggedOut, type |-> "success", timeout |-> DefaultTimeout] }

MsgFileTooLarge == <<"File size exceeds 5MB limit. Please select a smaller image.">>

\* the alerts of SyncAlerts and FileUpload.validateFile's error
StoreAlerts ==
  SyncAlerts \cup {[message |-> MsgFileTooLarge, type |-> "error", timeout |-> DefaultTimeout]}

AlertInit ==
  /\ alerts = <<>>
  /\ timers = <<>>
  /\ now = 0
  /\ uploads = [u \in UploadSlots |-> FreeUpload]
  /\ dash = NoDash
  /\ ret = NoRet

\* a handler may start: the model looks no further than MaxClock and
\* MaxTimers pending timers
MayStart == now <= MaxClock /\ Len(timers) < MaxTimers

\* An event handler of the current render raises an alert.
ShowAlert(a) ==
  /\ UNCHANGED sessionVars
  /\ MayStart
  /\ LET r == addAlert(alerts, alerts, timers, now, a.message, a.type, a.timeout)
     IN  /\ alerts' = r.alerts
         /\ timers' = r.timers
         /\ ret' = Ret(a.message, a.type, r)
  /\ UNCHANGED <<now, uploads, dash>>

\* Dashboard.handleFileUpload with a valid file: info('Analyzing your eye
\* image...', 2000) and the analysis request; the callbacks of the request
\* keep the closures of this render.
StartAnalysis(u, d, r) ==
  /\ alerts' = r.alerts
  /\ timers' = r.timers
  /\ ret' = Ret(MsgAnalyzing, "info", r)
  /\ uploads' = [v \in UploadSlots |->
                  IF v = u THEN [pc |-> "analyzing", snap |-> alerts, latest |-> TRUE]
                  ELSE [uploads[v] EXCEPT !.latest = FALSE]]
  /\ dash' = [d EXCEPT !.isAnalyzing = TRUE, !.analysisResult = "none"]

HandleFileUpload(u) ==
  /\ UNCHANGED sessionVars
  /\ MayStart
  /\ uploads[u].pc = "free"
  /\ StartAnalysis(u, dash, addAlert(alerts, alerts, timers, now, MsgAnalyzing, "info",
                                     AnalyzingTimeout))
  /\ UNCHANGED now

\* The analysis answers: success('Analysis complete!').  The refresh of the
\* history that follows is a request of origin "history".
AnalysisThen(u) ==
  /\ UNCHANGED sessionVars
  /\ uploads[u].pc = "analyzing"
  /\ Len(timers) < MaxTimers
  /\ LET r == addAlert(uploads[u].snap, alerts, timers, now, MsgAnalysisComplete,
                       "success", DefaultTimeout)
     IN  /\ alerts' = r.alerts
         /\ timers' = r.timers
         /\ ret' = Ret(MsgAnalysisComplete, "success", r)
  /\ uploads' = [uploads EXCEPT ![u] = FreeUpload]
  /\ dash' = [dash EXCEPT !.isAnalyzing = FALSE,
                          !.analysisResult = IF uploads[u].latest THEN "latest"
                                             ELSE "stale"]
  /\ UNCHANGED now

\* The analysis fails: showError(err.message).
AnalysisCatch(u) ==
  /\ UNCHANGED sessionVars
  /\ uploads[u].pc = "analyzing"
  /\ Len(timers) < MaxTimers
  /\ LET r == addAlert(uploads[u].snap, alerts, timers, now, MsgAnalysisError,
                       "error", DefaultTimeout)
     IN  /\ alerts' = r.alerts
         /\ timers' = r.timers
         /\ ret' = Ret(MsgAnalysisError, "error", r)
  /\ uploads' = [uploads EXCEPT ![u] = FreeUpload]
  /\ dash' = [dash EXCEPT !.isAnalyzing = FALSE, !.analysisResult = "none"]
  /\ UNCHANGED now

\* The timer callback of an alert runs, at or after its due time.
TimerFire(i) ==
  /\ UNCHANGED sessionVars
  /\ i \in 1..Len(timers)
  /\ timers[i].due <= now
  /\ \A j \in 1..Len(timers) : timers[j].due >= timers[i].due
  /\ alerts' = removeAlert(alerts, timers[i].id)
  /\ timers' = RemoveAt(timers, i)
  /\ ret' = Removal("expire", timers[i].id, "none")
  /\ UNCHANGED <<now, uploads, dash>>

\* The dismiss button of a visible alert: removeAlert(id).
Dismiss(i) ==
  /\ UNCHANGED sessionVars
  /\ i \in 1..Len(alerts)
  /\ alerts' = removeAlert(alerts, alerts[i].id)
  /\ ret' = Removal("remove", alerts[i].id, "none")
  /\ UNCHANGED <<timers, now, uploads, dash>>

\* A consumer of the context calls clearAlerts(): the pending timers stay.
ClearAlerts ==
  /\ UNCHANGED sessionVars
  /\ alerts' = clearAlerts(alerts)
  /\ ret' = Removal("clear", 0, "none")
  /\ UNCHANGED <<timers, now, uploads, dash>>

\* A consumer of the context calls clearAlertsByType(type).
ClearAlertsByType(type) ==
  /\ UNCHANGED sessionVars
  /\ alerts' = clearAlertsByType(alerts, type)
  /\ ret' = Removal("clearType", 0, type)
  /\ UNCHANGED <<timers, now, uploads, dash>>

\* The clock advances by a millisecond.
Tick ==
  /\ UNCHANGED sessionVars
  /\ now < MaxClock
  /\ now' = now + 1
  /\ ret' = NoRet
  /\ UNCHANGED <<alerts, timers, uploads, dash>>

\* Time passes until the next timer is due.
Wait ==
  /\ UNCHANGED sessionVars
  /\ \E i \in 1..Len(timers) : timers[i].due > now
  /\ now' = CHOOSE d \in {timers[i].due : i \in 1..Len(timers)} :
              /\ d > now
              /\ \A j \in 1..Len(timers) : timers[j].due > now => d <= timers[j].due
  /\ ret' = NoRet
  /\ UNCHANGED <<alerts, timers, uploads, dash>>

\* --------------------------------------------------------- specification
Init == SessionInit /\ AlertInit

\* the session store, the request pipeline, login and the router
Next ==
  \/ \E path \in Routes : NavigateTo(path)
  \/ ProfileSubmit
  \/ \E r \in Slots : \E resp \in PipelineResponses : FetchResolve(r, resp)
  \/ \E r \in Slots : FetchReject(r)
  \/ \E r \in Slots : Auth401Read(r)
  \/ \E r \in Slots : ReadOk(r)
  \/ \E r \in Slots : ReadErr(r)
  \/ \E r \in Slots : HistoryTimeout(r)
  \/ Logout
  \/ LoginSubmit
  \/ \E resp \in LoginResponses : LoginFetchResolve(resp)
  \/ LoginFetchReject
  \/ LoginReadErr
  \/ LoginReadOk

Spec == Init /\ [][Next]_vars

\* the notification store and the handlers that raise alerts
NextAlerts ==
  \/ \E a \in SyncAlerts : ShowAlert(a)
  \/ \E u \in UploadSlots : HandleFileUpload(u)
  \/ \E u \in UploadSlots : AnalysisThen(u)
  \/ \E u \in UploadSlots : AnalysisCatch(u)
  \/ \E i \in 1..MaxTimers : TimerFire(i)
  \/ \E i \in 1..MaxTimers : Dismiss(i)
  \/ Tick
  \/ Wait

SpecAlerts == Init /\ [][NextAlerts]_vars

\* a token with the given middle part
TokenOf(part) == <<"header", ".", part, ".", "signature">>

\* tokens a previous visit has left in the store: three-part tokens with
\* the payloads of DecodedPayload, one whose payload does not decode, one
\* with two parts and an opaque one
StoredTokens ==
  { TokenOf("payload.sub"), TokenOf("payload.id+userId"),
    TokenOf("payload.userId+sub"), TokenOf("payload.user_id"),
    TokenOf("payload.id0+sub"), TokenOf("payload.id0"),
    TokenOf("payload.name"), TokenOf("not-base64"),
    <<"header", ".", "payload.id">>, <<"opaque">> }

\* The application is opened at "/" with the store of a previous visit:
\* the route "/" leads to /dashboard, whose mount effect asks for the
\* history, or to /login.
DashboardInit ==
  /\ \E ls \in {EmptyStorage} \cup {setToken(EmptyStorage, t) : t \in StoredTokens} :
       LET a == Arrive(IF isAuthenticated(ls) THEN "/dashboard" ELSE "/login", ls,
                       [r \in Slots |-> FreeReq])
       IN  /\ localStorage = a.ls
           /\ location = a.location
           /\ reqs = a.reqs
           /\ out = Out("nav", "/", NoResp, ~Truthy(a.err), a.err, a.notices, a.sent)
  /\ lg = IdleLogin
  /\ AlertInit

\* the dashboard and the profile page of a stored session
NextDashboard ==
  \/ \E path \in Routes : NavigateTo(path)
  \/ ProfileSubmit
  \/ \E r \in Slots : \E resp \in PipelineResponses : FetchResolve(r, resp)
  \/ \E r \in Slots : FetchReject(r)
  \/ \E r \in Slots : Auth401Read(r)
  \/ \E r \in Slots : ReadOk(r)
  \/ \E r \in Slots : ReadErr(r)
  \/ \E r \in Slots : HistoryTimeout(r)
  \/ Logout
  \/ AnalyzeSubmit
  \/ \E r \in Slots : InferenceReject(r)
  \/ \E r \in Slots : InferenceResolve(r)

SpecDashboard == DashboardInit /\ [][NextDashboard]_vars

\* the notification store alone, under every operation of its context
NextStore ==
  \/ \E a \in StoreAlerts : ShowAlert(a)
  \/ \E i \in 1..MaxTimers : TimerFire(i)
  \/ \E i \in 1..MaxTimers : Dismiss(i)
  \/ ClearAlerts
  \/ \E type \in AlertTypes : ClearAlertsByType(type)
  \/ Tick
  \/ Wait

SpecStore == Init /\ [][NextStore]_vars

TypeOK ==
  /\ location \in Routes
  /\ DOMAIN localStorage \subseteq {"jwt_token", "isAuthenticated"}

\* -------------------------------------------------------- the profile page
MsgFixProfile == <<"Please fix the validation errors in your profile information">>

\* The application is opened at /profile with the store of a previous
\* visit: ProtectedRoute, and the mount effect of Profile asks for the
\* profile.
ProfileInit ==
  /\ \E ls \in {EmptyStorage} \cup {setToken(EmptyStorage, t) : t \in StoredTokens} :
       LET a == Arrive("/profile", ls, [r \in Slots |-> FreeReq])
       IN  /\ localStorage = a.ls
           /\ location = a.location
           /\ reqs = a.reqs
           /\ out = Out("nav", "/profile", NoResp, ~Truthy(a.err), a.err, a.notices, a.sent)
  /\ lg = IdleLogin
  /\ AlertInit

\* the closures of the request that the call a sent, if it sent one, are
\* those of the render with the alerts as
WithSnap(a, rq, as) ==
  [ls |-> a.ls, location |-> a.location,
   reqs |-> IF a.sent THEN [a.reqs EXCEPT ![FreeSlot(rq)].snap = as] ELSE a.reqs,
   sent |-> a.sent]

\* AlertProvider has rendered with the alerts as: every function of the
\* context is a new one, so the effect of a mounted Profile, which depends
\* on showError, runs again: navigate('/login') without a session,
\* fetchUserProfile() otherwise, with the closures of this render.
ProfileEffect(ls, loc, rq, as) ==
  IF loc # "/profile"
    THEN [ls |-> ls, location |-> loc, reqs |-> rq, sent |-> FALSE]
    ELSE WithSnap(Arrive("/profile", ls, rq), rq, as)

\* addAlert returned ad: the store changed unless it returned null
ProfileRender(ad, ls, loc, rq) ==
  IF ad.null
    THEN [ls |-> ls, location |-> loc, reqs |-> rq, sent |-> FALSE]
    ELSE ProfileEffect(ls, loc, rq, ad.alerts)

\* a step of the profile page: what happened, the alerts asked for, and
\* whether GET /users/profile went out in the step
ProfileOut(what, ok, err, notices, sent) ==
  Out("profile", what, NoResp, ok, err, notices, sent)

\* the page after the step: e is the outcome of the effect
ProfilePage(what, ok, err, notices, e) ==
  /\ localStorage' = e.ls
  /\ location' = e.location
  /\ reqs' = e.reqs
  /\ out' = ProfileOut(what, ok, err, notices, e.sent)

\* a handler of the page has called addAlert(message, type), which
\* returned ad
ProfileAlerted(what, err, message, type, ad, ls, loc, rq) ==
  /\ alerts' = ad.alerts
  /\ timers' = ad.timers
  /\ ret' = Ret(message, type, ad)
  /\ ProfilePage(what, FALSE, err, <<message>>, ProfileRender(ad, ls, loc, rq))

\* the catch of fetchUserProfile, po being what it does to the session
ProfileCatch(r, m, po) ==
  ProfileAlerted("fetchFailed", m, po.notices[1], "error",
                 addAlert(reqs[r].snap, alerts, timers, now, po.notices[1], "error",
                          DefaultTimeout),
                 po.ls, po.location, [reqs EXCEPT ![r] = FreeReq])

\* The profile request fails in the network: the catch of fetchUserProfile
\* calls showError, and a changed store renders AlertProvider again.
ProfileFetchReject(r) ==
  /\ reqs[r].pc = "fetch" /\ reqs[r].origin = "profileFetch"
  /\ MayStart
  /\ \E m \in FetchErrorMessages :
       ProfileCatch(r, m, PageOutcome("profileFetch", FALSE, m, NoResp.body,
                                      localStorage, location))
  /\ UNCHANGED <<lg, now, uploads, dash>>

\* The profile request succeeds: setUserData and setFormData render Profile
\* alone, with the functions of the same context value.
ProfileFetchOk(r) ==
  /\ reqs[r].pc = "fetch" /\ reqs[r].origin = "profileFetch"
  /\ reqs' = [reqs EXCEPT ![r] = FreeReq]
  /\ out' = ProfileOut("fetchOk", TRUE, <<>>, <<>>, FALSE)
  /\ ret' = NoRet
  /\ UNCHANGED <<localStorage, location, lg, alerts, timers, now, uploads, dash>>

\* Profile.handleSubmit with a form that fails validateProfileInfo:
\* validation('Please fix the validation errors ...'), no request of its own.
ProfileInvalidSubmit ==
  /\ location = "/profile"
  /\ ~InFlight(reqs, {"profileFetch", "profileUpdate"})
  /\ MayStart
  /\ ProfileAlerted("invalidSubmit", <<>>, MsgFixProfile, "validation",
                    addAlert(alerts, alerts, timers, now, MsgFixProfile, "validation",
                             ValidationTimeout),
                    localStorage, location, reqs)
  /\ UNCHANGED <<lg, now, uploads, dash>>

\* removeAlert(id) has set the array as, a new one whatever it removed
ProfileRemoved(what, as) ==
  /\ alerts' = as
  /\ ProfilePage(what, TRUE, <<>>, <<>>, ProfileEffect(localStorage, location, reqs, as))

\* The timer of an alert runs while the profile page is shown.
ProfileAlertExpires(i) ==
  /\ i \in 1..Len(timers)
  /\ timers[i].due <= now
  /\ \A j \in 1..Len(timers) : timers[j].due >= timers[i].due
  /\ (location = "/profile" /\ ArriveSends("/profile", localStorage)) => MayRequest
  /\ ProfileRemoved("alertExpired", removeAlert(alerts, timers[i].id))
  /\ timers' = RemoveAt(timers, i)
  /\ ret' = Removal("expire", timers[i].id, "none")
  /\ UNCHANGED <<lg, now, uploads, dash>>

\* The dismiss button of a visible alert while the profile page is shown.
ProfileAlertDismiss(i) ==
  /\ i \in 1..Len(alerts)
  /\ (location = "/profile" /\ ArriveSends("/profile", localStorage)) => MayRequest
  /\ ProfileRemoved("alertDismissed", removeAlert(alerts, alerts[i].id))
  /\ ret' = Removal("remove", alerts[i].id, "none")
  /\ UNCHANGED <<lg, timers, now, uploads, dash>>

\* the profile page and the notification store it renders under
NextProfile ==
  \/ \E r \in Slots : ProfileFetchReject(r)
  \/ \E r \in Slots : ProfileFetchOk(r)
  \/ ProfileInvalidSubmit
  \/ \E i \in 1..MaxTimers : ProfileAlertExpires(i)
  \/ \E i \in 1..MaxTimers : ProfileAlertDismiss(i)
  \/ Tick
  \/ Wait

SpecProfile == ProfileInit /\ [][NextProfile]_vars

\* ------------------------------------ the login page after a registration
MsgRegistered == <<"Registration successful! Please login with your credentials.">>

\* The mount effect of Login, run in a render whose alerts are as, on the
\* location that Register.handleSubmit navigated to: location.state is
\* { message, fromRegistration: true }, so it calls success(message).
\* window.history.replaceState does not change the location of the router,
\* so the state is the same every time the effect runs.
LoginEffect(as, ts, clock) ==
  addAlert(as, as, ts, clock, MsgRegistered, "success", DefaultTimeout)

\* Register.handleSubmit's then has navigated to /login, Login is mounted
\* and its effect has run, without a session in the store.
RegisteredInit ==
  /\ localStorage = EmptyStorage
  /\ location = "/login"
  /\ reqs = [r \in Slots |-> FreeReq]
  /\ lg = IdleLogin
  /\ out = Out("loginPage", "mounted", NoResp, TRUE, <<>>, <<MsgRegistered>>, FALSE)
  /\ alerts = LoginEffect(<<>>, <<>>, 0).alerts
  /\ timers = LoginEffect(<<>>, <<>>, 0).timers
  /\ now = 0
  /\ uploads = [u \in UploadSlots |-> FreeUpload]
  /\ dash = NoDash
  /\ ret = Ret(MsgRegistered, "success", LoginEffect(<<>>, <<>>, 0))

\* The store of AlertProvider has changed: it renders, every function of
\* the context is a new one, and the effect of Login, which depends on
\* success, runs again and has returned e.  (The alert that it may add
\* makes it run once more, when it finds the duplicate.)
LoginRendered(what, e) ==
  /\ alerts' = e.alerts
  /\ timers' = e.timers
  /\ out' = Out("loginPage", what, NoResp, TRUE, <<>>,
                IF e.null THEN <<>> ELSE <<MsgRegistered>>, FALSE)
  /\ UNCHANGED <<localStorage, location, reqs, lg, now, uploads, dash>>

\* The timer of an alert runs while the login page is shown.  The model
\* follows the page for one lifetime of an alert after MaxClock.
LoginAlertExpires(i) ==
  /\ location = "/login" /\ ~isAuthenticated(localStorage)
  /\ i \in 1..Len(timers)
  /\ timers[i].due <= now
  /\ \A j \in 1..Len(timers) : timers[j].due >= timers[i].due
  /\ now <= MaxClock + DefaultTimeout
  /\ LoginRendered("alertExpired",
                   LoginEffect(removeAlert(alerts, timers[i].id), RemoveAt(timers, i), now))
  /\ ret' = Removal("expire", timers[i].id, "none")

\* The dismiss button of a visible alert while the login page is shown.
LoginAlertDismiss(i) ==
  /\ location = "/login" /\ ~isAuthenticated(localStorage)
  /\ i \in 1..Len(alerts)
  /\ MayStart
  /\ LoginRendered("alertDismissed",
                   LoginEffect(removeAlert(alerts, alerts[i].id), timers, now))
  /\ ret' = Removal("remove", alerts[i].id, "none")

\* the store after the validation alert ad of an invalid form
LoginValidated(ad) ==
  IF ad.null THEN ad ELSE LoginEffect(ad.alerts, ad.timers, now)

\* Login.handleSubmit with a form that fails validateForm:
\* validation('Please fix the validation errors to continue'), no request.
LoginInvalidSubmit ==
  /\ location = "/login" /\ ~isAuthenticated(localStorage)
  /\ lg.pc = "idle"
  /\ now <= MaxClock /\ Len(timers) + 1 < MaxTimers
  /\ LoginRendered("invalidSubmit",
                   LoginValidated(addAlert(alerts, alerts, timers, now, MsgFixValidation,
                                           "validation", ValidationTimeout)))
  /\ ret' = Ret(MsgFixValidation, "validation",
                addAlert(alerts, alerts, timers, now, MsgFixValidation, "validation",
                         ValidationTimeout))

\* the login page that a registration has redirected to
NextRegistered ==
  \/ LoginInvalidSubmit
  \/ \E i \in 1..MaxTimers : LoginAlertExpires(i)
  \/ \E i \in 1..MaxTimers : LoginAlertDismiss(i)
  \/ Tick
  \/ Wait

SpecRegistered == RegisteredInit /\ [][NextRegistered]_vars

\* ------------------------------------------------------- FileUpload.js
MaxFileBytes == 5 * 1024 * 1024

ValidTypes == {"image/jpeg", "image/png", "image/jpg"}

\* the files that the user offers: images of three formats, small, of
\* exactly 5MB, one byte larger, and of 6MB
Files ==
  [type : {"image/jpeg", "image/png", "image/gif"},
   size : {1024, MaxFileBytes, MaxFileBytes + 1, 6 * 1024 * 1024}]

MsgInvalidFileType == <<"Please select a valid image file (JPEG or PNG)">>
MsgUploadTooLarge  == <<"File size exceeds 5MB limit. Please upload a smaller image.">>
MsgUnsupportedFormat(type) ==
  <<"Unsupported file format: ", type, ". Please upload a JPEG or PNG image.">>

validateFileMutC23(file) ==
  IF file.type \notin ValidTypes THEN MsgInvalidFileType
  ELSE IF file.size > 6 * 1024 * 1024 THEN MsgFileTooLarge
  ELSE <<>>

\* FileUpload.validateFile: the error it shows, '' for a valid file
validateFile(file) ==
  IF file.type \notin ValidTypes THEN MsgInvalidFileType
  ELSE IF file.size > MaxFileBytes THEN MsgFileTooLarge
  ELSE <<>>

\* ValidationUtils.validateImageFile(file): the message of an invalid file
validateImageFile(file) ==
  IF file = NoFile THEN <<"No file selected">>
  ELSE IF file.size > MaxFileBytes THEN MsgUploadTooLarge
  ELSE IF file.type \notin ValidTypes THEN MsgUnsupportedFormat(file.type)
  ELSE <<>>

\* a step of the file upload: the file offered or submitted, the error, the
\* alerts asked for, and whether an analysis started
FileOut(kind, file, err, notices, sent) ==
  [kind |-> kind, origin |-> "file", resp |-> NoResp, ok |-> err = <<>>, err |-> err,
   notices |-> notices, sent |-> sent, file |-> file]

\* validateFile has refused the file with the error err: setError(err) and
\* showError(err), which returned r; selected is the file that stays selected
FileRefused(kind, file, err, selected, r) ==
  /\ alerts' = r.alerts
  /\ timers' = r.timers
  /\ ret' = Ret(err, "error", r)
  /\ dash' = [dash EXCEPT !.selectedFile = selected, !.error = err]
  /\ out' = FileOut(kind, file, err, <<err>>, FALSE)

\* validateFile has accepted the file: setError('') and setSelectedFile(file)
FileAccepted(kind, file) ==
  /\ dash' = [dash EXCEPT !.selectedFile = file, !.error = <<>>]
  /\ out' = FileOut(kind, file, <<>>, <<>>, FALSE)
  /\ ret' = NoRet
  /\ UNCHANGED <<alerts, timers>>

\* FileUpload.handleFileChange: a file is chosen in the file dialog; an
\* invalid file resets the selection.
SelectFile(file) ==
  /\ IF validateFile(file) = <<>>
       THEN FileAccepted("select", file)
       ELSE /\ MayStart
            /\ FileRefused("select", file, validateFile(file), NoFile,
                           addAlert(alerts, alerts, timers, now, validateFile(file),
                                    "error", DefaultTimeout))
  /\ UNCHANGED <<localStorage, location, reqs, lg, now, uploads>>

\* FileUpload.handleDrop: a file is dropped on the zone; an invalid file
\* leaves the selection as it was.
DropFile(file) ==
  /\ IF validateFile(file) = <<>>
       THEN FileAccepted("drop", file)
       ELSE /\ MayStart
            /\ FileRefused("drop", file, validateFile(file), dash.selectedFile,
                           addAlert(alerts, alerts, timers, now, validateFile(file),
                                    "error", DefaultTimeout))
  /\ UNCHANGED <<localStorage, location, reqs, lg, now, uploads>>

\* FileUpload.handleSubmit with a selected file: Dashboard.handleFileUpload,
\* which validates the file again and starts the analysis, and the reset of
\* the selection.
SubmitFile(u) ==
  /\ dash.selectedFile # NoFile
  /\ MayStart
  /\ uploads[u].pc = "free"
  /\ IF validateImageFile(dash.selectedFile) = <<>>
       THEN /\ StartAnalysis(u, [dash EXCEPT !.selectedFile = NoFile],
                             addAlert(alerts, alerts, timers, now, MsgAnalyzing, "info",
                                      AnalyzingTimeout))
            /\ out' = FileOut("submit", dash.selectedFile, <<>>, <<MsgAnalyzing>>, TRUE)
       ELSE /\ FileRefused("submit", dash.selectedFile,
                           validateImageFile(dash.selectedFile), NoFile,
                           addAlert(alerts, alerts, timers, now,
                                    validateImageFile(dash.selectedFile), "error",
                                    DefaultTimeout))
            /\ UNCHANGED uploads
  /\ UNCHANGED <<localStorage, location, reqs, lg, now>>

\* the file upload of the dashboard and the notification store
NextFileUpload ==
  \/ \E file \in Files : SelectFile(file)
  \/ \E file \in Files : DropFile(file)
  \/ \E u \in UploadSlots : SubmitFile(u)
  \/ \E i \in 1..MaxTimers : TimerFire(i)
  \/ Wait

SpecFileUpload == Init /\ [][NextFileUpload]_vars

\* ------------------------------------- ValidationUtils and PasswordInput
MaxKeys == 4       \* characters typed into the password field
MaxPastes == 2     \* pastes of four lowercase letters into the field

\* the character classes of the regular expressions
UpperCase == {"A", "B", "C", "D", "E", "F", "G", "H", "I", "J", "K", "L", "M",
              "N", "O", "P", "Q", "R", "S", "T", "U", "V", "W", "X", "Y", "Z"}

LowerCase == {"a", "b", "c", "d", "e", "f", "g", "h", "i", "j", "k", "l", "m",
              "n", "o", "p", "q", "r", "s", "t", "u", "v", "w", "x", "y", "z"}

Digits == {"0", "1", "2", "3", "4", "5", "6", "7", "8", "9"}

\* /[!@#$%^&*()_+\-=\[\]{};':"\\|,.<>\/?]/
ListedSpecial ==
  {"!", "@", "#", "$", "%", "^", "&", "*", "(", ")", "_", "+", "-", "=", "[", "]",
   "{", "}", ";", "'", ":", "\"", "\\", "|", ",", ".", "<", ">", "/", "?"}

\* the keys of the model: a letter of each case, a digit, a special
\* character of the validator's list and one that is not in it
Keys == {"A", "a", "1", "!", "~"}

\* regex.test(value) of a character class
Test(class, value) == \E i \in 1..Len(value) : value[i] \in class

\* /[^A-Za-z0-9]/.test(value)
TestNonAlnum(value) ==
  \E i \in 1..Len(value) : value[i] \notin (UpperCase \cup LowerCase \cup Digits)

Verdict(isValid, message) == [isValid |-> isValid, message |-> message]

validatePasswordStrengthMutC25(password) ==
  IF password = <<>> THEN Verdict(FALSE, <<"Password is required">>)
  ELSE IF Len(password) < 8
    THEN Verdict(FALSE, <<"Password must be at least 8 characters">>)
  ELSE IF ~Test(UpperCase, password)
    THEN Verdict(FALSE, <<"Password must contain at least one uppercase letter">>)
  ELSE IF ~Test(LowerCase, password)
    THEN Verdict(FALSE, <<"Password must contain at least one lowercase letter">>)
  ELSE IF ~Test(ListedSpecial, password)
    THEN Verdict(FALSE, <<"Password must contain at least one special character">>)
  ELSE Verdict(TRUE, <<"Password is strong">>)

\* ValidationUtils.validatePasswordStrength(password)
validatePasswordStrength(password) ==
  IF password = <<>> THEN Verdict(FALSE, <<"Password is required">>)
  ELSE IF Len(password) < 8
    THEN Verdict(FALSE, <<"Password must be at least 8 characters">>)
  ELSE IF ~Test(UpperCase, password)
    THEN Verdict(FALSE, <<"Password must contain at least one uppercase letter">>)
  ELSE IF ~Test(LowerCase, password)
    THEN Verdict(FALSE, <<"Password must contain at least one lowercase letter">>)
  ELSE IF ~Test(Digits, password)
    THEN Verdict(FALSE, <<"Password must contain at least one number">>)
  ELSE IF ~Test(ListedSpecial, password)
    THEN Verdict(FALSE, <<"Password must contain at least one special character">>)
  ELSE Verdict(TRUE, <<"Password is strong">>)

\* the five requirements that PasswordInput marks as satisfied (value && ...)
Requirements(value) ==
  [length    |-> value # <<>> /\ Len(value) >= 8,
   uppercase |-> value # <<>> /\ Test(UpperCase, value),
   lowercase |-> value # <<>> /\ Test(LowerCase, value),
   number    |-> value # <<>> /\ Test(Digits, value),
   special   |-> value # <<>> /\ TestNonAlnum(value)]

\* the new-password field after handlePasswordChange(value) with
\* validateOnChange: the value, the verdict of the validator, the
\* validation message and the checklist
PasswordOut(value, keys, pastes) ==
  [kind |-> "password", origin |-> "newPassword", resp |-> NoResp,
   ok |-> validatePasswordStrength(value).isValid,
   err |-> IF value # <<>> /\ ~validatePasswordStrength(value).isValid
             THEN validatePasswordStrength(value).message ELSE <<>>,
   notices |-> <<>>, sent |-> FALSE,
   value |-> value, requirements |-> Requirements(value),
   keys |-> keys, pastes |-> pastes]

\* the field before anything is typed
PasswordField == IF out.kind = "password" THEN out ELSE PasswordOut(<<>>, 0, 0)

\* PasswordInput.handlePasswordChange: a key is typed at the end of the
\* new password.
TypeKey(c) ==
  /\ PasswordField.keys < MaxKeys
  /\ out' = PasswordOut(Append(PasswordField.value, c), PasswordField.keys + 1,
                        PasswordField.pastes)
  /\ UNCHANGED <<localStorage, location, reqs, lg>>
  /\ UNCHANGED alertVars

\* PasswordInput.handlePasswordChange: four lowercase letters are pasted
\* at the end of the new password.
PasteLetters ==
  /\ PasswordField.pastes < MaxPastes
  /\ out' = PasswordOut(PasswordField.value \o <<"a", "a", "a", "a">>,
                        PasswordField.keys, PasswordField.pastes + 1)
  /\ UNCHANGED <<localStorage, location, reqs, lg>>
  /\ UNCHANGED alertVars

NextPassword ==
  \/ \E c \in Keys : TypeKey(c)
  \/ PasteLetters

SpecPassword == Init /\ [][NextPassword]_vars

\* ------------------------------------------- the history of the dashboard
\* tokens that carry a user id
HistoryTokens == {TokenOf("payload.sub"), TokenOf("payload.id+userId")}

\* The application is opened at "/" with a session: the dashboard is
\* mounted and fetchAnalysisHistory sets isLoading and asks for the history.
HistoryInit ==
  /\ \E t \in HistoryTokens :
       LET a == Arrive("/dashboard", setToken(EmptyStorage, t), [r \in Slots |-> FreeReq])
       IN  /\ localStorage = a.ls
           /\ location = a.location
           /\ reqs = a.reqs
           /\ out = Out("nav", "/", NoResp, TRUE, <<>>, a.notices, a.sent)
  /\ lg = IdleLogin
  /\ alerts = <<>>
  /\ timers = <<>>
  /\ now = 0
  /\ uploads = [u \in UploadSlots |-> FreeUpload]
  /\ dash = [NoDash EXCEPT !.isLoading = TRUE]
  /\ ret = NoRet

\* the dashboard is mounted anew by the navigation e, with the closures of
\* the render of the moment
DashMounted(path, e) ==
  /\ localStorage' = e.ls
  /\ location' = e.location
  /\ reqs' = e.reqs
  /\ dash' = [NoDash EXCEPT !.isLoading = e.sent]
  /\ out' = Out("nav", path, NoResp, TRUE, <<>>, <<>>, e.sent)

\* The user of the dashboard goes to /login with a session: the mount
\* effect of Login sends the visitor back, and a new Dashboard is mounted.
\* The model follows the revisit when no history request is in flight.
DashRevisit ==
  /\ location = "/dashboard"
  /\ isAuthenticated(localStorage) /\ Truthy(getUserId(localStorage))
  /\ ~InFlight(reqs, {"history"})
  /\ MayRequest /\ MayStart
  /\ DashMounted("/login", WithSnap(Arrive("/login", localStorage, reqs), reqs, alerts))
  /\ UNCHANGED <<lg, alerts, timers, now, uploads, ret>>

\* the catch of fetchAnalysisHistory has called showError(message), which
\* returned ad, and set the history to []; the finally: setIsLoading(false)
DashHistoryFailed(kind, err, message, ad, po) ==
  /\ alerts' = ad.alerts
  /\ timers' = ad.timers
  /\ ret' = Ret(message, "error", ad)
  /\ localStorage' = po.ls
  /\ location' = po.location
  /\ dash' = IF po.location = "/dashboard"
               THEN [dash EXCEPT !.isLoading = FALSE, !.analysisHistory = "empty"]
               ELSE NoDash
  /\ out' = Out(kind, "history", NoResp, FALSE, err, <<message>>, kind # "timeout")

\* The 15-second timer of fetchAnalysisHistory wins the race.
DashHistoryTimeout(r) ==
  /\ reqs[r].pc = "fetch" /\ reqs[r].origin = "history" /\ ~reqs[r].settled
  /\ Len(timers) < MaxTimers
  /\ reqs' = [reqs EXCEPT ![r].settled = TRUE]
  /\ DashHistoryFailed("timeout", <<"Request timeout">>, MsgHistoryTimeout,
                       addAlert(reqs[r].snap, alerts, timers, now, MsgHistoryTimeout,
                                "error", DefaultTimeout),
                       [ls |-> localStorage, location |-> location])
  /\ UNCHANGED <<lg, now, uploads>>

\* the request has lost the race before: its outcome goes nowhere
DashHistoryLate(r, ok, err) ==
  /\ reqs[r].settled
  /\ reqs' = [reqs EXCEPT ![r] = FreeReq]
  /\ out' = Out("late", "history", NoResp, ok, err, <<>>, TRUE)
  /\ ret' = NoRet
  /\ UNCHANGED <<localStorage, location, lg, alerts, timers, now, uploads, dash>>

\* The server answers 200 with the array of the history, and the body is
\* read: setAnalysisHistory(history), setIsLoading(false).
DashHistoryResolve(r) ==
  /\ reqs[r].pc = "fetch" /\ reqs[r].origin = "history"
  /\ \/ DashHistoryLate(r, TRUE, <<>>)
     \/ /\ ~reqs[r].settled
        /\ reqs' = [reqs EXCEPT ![r] = FreeReq]
        /\ dash' = [dash EXCEPT !.isLoading = FALSE, !.analysisHistory = "loaded"]
        /\ out' = Out("api", "history", NoResp, TRUE, <<>>, <<>>, TRUE)
        /\ ret' = NoRet
        /\ UNCHANGED <<localStorage, location, lg, alerts, timers, now, uploads>>

\* the catch of fetchAnalysisHistory for the error m of the request
DashHistoryCatch(r, m, po) ==
  /\ reqs' = [reqs EXCEPT ![r] = FreeReq]
  /\ DashHistoryFailed("api", m, po.notices[1],
                       addAlert(reqs[r].snap, alerts, timers, now, po.notices[1],
                                "error", DefaultTimeout),
                       po)
  /\ UNCHANGED <<lg, now, uploads>>

\* The request fails in the network.
DashHistoryReject(r) ==
  /\ reqs[r].pc = "fetch" /\ reqs[r].origin = "history"
  /\ \E m \in FetchErrorMessages :
       \/ DashHistoryLate(r, FALSE, m)
       \/ /\ ~reqs[r].settled
          /\ Len(timers) < MaxTimers
          /\ DashHistoryCatch(r, m, PageOutcome("history", FALSE, m, NoResp.body,
                                                localStorage, location))

\* the history of the dashboard and the notification store
NextHistory ==
  \/ DashRevisit
  \/ \E r \in Slots : DashHistoryTimeout(r)
  \/ \E r \in Slots : DashHistoryResolve(r)
  \/ \E r \in Slots : DashHistoryReject(r)
  \/ \E i \in 1..MaxTimers : TimerFire(i)
  \/ \E i \in 1..MaxTimers : Dismiss(i)
  \/ Tick
  \/ Wait

SpecHistory == HistoryInit /\ [][NextHistory]_vars

\* ------------------------------------------------------------- properties
\* the body of the response mentions 'password', in any case
MentionsPassword(b) == Includes(ToLowerCase(RawText(b)), "password")

\* the step just taken settled a pipeline request that was answered 401
Settled401(o) == o.kind = "api" /\ o.sent /\ o.resp.status = 401

\* C1: when a request sent with a stored token is answered 401 with a body
\* that mentions 'password', the session is left as it was and the error
\* delivered to the caller carries the server's text as its message.
C1_PasswordFailureSurfaced ==
  [][ (Settled401(out') /\ MentionsPassword(out'.resp.body))
        => /\ localStorage' = localStorage
           /\ ~out'.ok
           /\ out'.err \in {RawText(out'.resp.body), out'.resp.body.message} ]_vars

\* C2: when a request sent with a stored token is answered 401 with a body
\* that does not mention 'password', both fields of the session are
\* removed, isAuthenticated() is false afterwards, and the caller gets an
\* error saying that the session has expired.
C2_SessionExpired ==
  [][ (Settled401(out') /\ ~MentionsPassword(out'.resp.body))
        => /\ ~HasItem(localStorage', "jwt_token")
           /\ ~HasItem(localStorage', "isAuthenticated")
           /\ ~isAuthenticated(localStorage')
           /\ ~out'.ok
           /\ out'.err = MsgSessionExpired ]_vars

C2_Witness ==
  /\ Settled401(out) /\ ~MentionsPassword(out.resp.body)
  /\ out.err = MsgSessionExpired
  /\ ~HasItem(localStorage, "jwt_token")

\* C3: every step in which the pipeline determines a session expiry ends
\* on the login screen.
C3_ExpiryNavigatesToLogin ==
  [][ (out'.kind = "api" /\ out'.err \in {MsgSessionExpired, MsgSessionExpiredApi})
        => location' = "/login" ]_vars

\* C4: isAuthenticated() is true exactly when the authenticated flag is
\* set and a non-empty token is stored; with no stored token it is false.
C4_AuthenticatedIffFlagAndToken ==
  LET flagSet  == /\ "isAuthenticated" \in DOMAIN localStorage
                  /\ localStorage["isAuthenticated"] = <<"true">>
      tokenSet == /\ "jwt_token" \in DOMAIN localStorage
                  /\ Len(localStorage["jwt_token"]) > 0
  IN  /\ isAuthenticated(localStorage) <=> (flagSet /\ tokenSet)
      /\ "jwt_token" \notin DOMAIN localStorage => ~isAuthenticated(localStorage)

\* the flag is set and the stored token is empty
C4_Witness ==
  /\ "isAuthenticated" \in DOMAIN localStorage
  /\ "jwt_token" \in DOMAIN localStorage
  /\ localStorage["jwt_token"] = <<>>
  /\ ~isAuthenticated(localStorage)

\* C5: the stored token never begins with the 'Bearer ' prefix.
C5_StoredTokenHasNoPrefix ==
  HasItem(localStorage, "jwt_token") => ~StartsWithBearer(localStorage["jwt_token"])

\* C6: when login resolves, the stored token has no scheme prefix,
\* isAuthenticated() is true and the dashboard is shown.
C6_LoginResolvesAuthenticated ==
  (out.kind = "login" /\ out.ok)
    => /\ isAuthenticated(localStorage)
       /\ ~StartsWithBearer(localStorage["jwt_token"])
       /\ location = "/dashboard"

\* C7: a pipeline request made while no token is stored fails at once with
\* 'Not authenticated': no HTTP request is issued and the session store is
\* unchanged.
C7_NoTokenFailsImmediately ==
  [][ (out'.kind = "call"
        /\ (~HasItem(localStorage, "jwt_token") \/ localStorage["jwt_token"] = <<>>))
        => /\ ~out'.ok
           /\ out'.err = MsgNotAuthenticated
           /\ ~out'.sent
           /\ reqs' = reqs
           /\ localStorage' = localStorage ]_vars

C7_Witness ==
  /\ out.kind = "call" /\ out.err = MsgNotAuthenticated /\ ~out.sent
  /\ ~HasItem(localStorage, "jwt_token")

\* C8: no two visible alerts have the same message and kind.
C8_NoDuplicateAlerts ==
  \A i, j \in 1..Len(alerts) :
    i < j => ~(alerts[i].message = alerts[j].message /\ alerts[i].type = alerts[j].type)

\* C9: the timer of an alert removes that alert only: every alert that a
\* timer callback removes has the message and kind the timer was set for.
C9_TimerRemovesOwnAlertOnly ==
  [][ Len(timers') < Len(timers)
        => \E i \in 1..Len(timers) :
             /\ timers' = RemoveAt(timers, i)
             /\ \A k \in 1..Len(alerts) :
                  alerts[k].id = timers[i].id
                    => /\ alerts[k].message = timers[i].message
                       /\ alerts[k].type = timers[i].type ]_vars

\* C10: addAlert returns null exactly when a visible alert has the same
\* message and kind, and then leaves the list and the timers as they were;
\* otherwise it returns the id of the alert it appended.
C10_AddAlertReturn ==
  [][ ret'.called
        => /\ ret'.null <=> hasDuplicate(alerts, ret'.message, ret'.type)
           /\ ret'.null => (alerts' = alerts /\ timers' = timers)
           /\ ~ret'.null =>
                alerts' = Append(alerts, [id |-> ret'.id, message |-> ret'.message,
                                          type |-> ret'.type]) ]_vars

\* C11: all visible alerts have pairwise distinct ids, so that removeAlert(id)
\* and an expiring timer remove at most one alert.
C11_AlertIdsUnique ==
  \A i, j \in 1..Len(alerts) : i < j => alerts[i].id # alerts[j].id

\* C12: the visible list is in insertion order: addAlert appends at the end;
\* removeAlert(id), clearAlertsByType(kind) and an expiring timer remove
\* exactly the matching alerts and leave the others in their relative order;
\* clearAlerts() leaves the list empty.
C12_InsertionOrderKept ==
  [][ LET rid   == ret'.id
          rtype == ret'.type
      IN  CASE ret'.op = "add" /\ ~ret'.null ->
                 alerts' = Append(alerts, [id |-> ret'.id, message |-> ret'.message,
                                           type |-> ret'.type])
            [] ret'.op \in {"remove", "expire"} ->
                 alerts' = SelectSeq(alerts, LAMBDA a : a.id # rid)
            [] ret'.op = "clearType" ->
                 alerts' = SelectSeq(alerts, LAMBDA a : a.type # rtype)
            [] ret'.op = "clear" -> alerts' = <<>>
            [] OTHER -> alerts' = alerts ]_vars

\* a timer has expired and other alerts are still shown
C12_Witness == ret.op = "expire" /\ Len(alerts) >= 1

\* C13: the session becomes present only through a successful login, and
\* becomes absent only through logout or a 401 answer of the server; no
\* other event clears the stored token.
C13_SessionChangeCauses ==
  [][ /\ (~HasItem(localStorage, "jwt_token") /\ HasItem(localStorage', "jwt_token"))
           => (out'.kind = "login" /\ out'.ok)
      /\ (HasItem(localStorage, "jwt_token") /\ ~HasItem(localStorage', "jwt_token"))
           => \/ out'.kind = "logout"
              \/ (out'.kind = "api" /\ out'.resp.status = 401) ]_vars

\* C14: the header's logout leaves neither the token nor the flag in the
\* store, so that getToken() is absent and isAuthenticated() is false, and
\* shows /login, from where every protected route leads back to /login; and
\* no step removes the token and keeps the flag.
C14_LogoutClearsSession ==
  [][ /\ out'.kind = "logout"
           => /\ ~HasItem(localStorage', "jwt_token")
              /\ ~HasItem(localStorage', "isAuthenticated")
              /\ ~isAuthenticated(localStorage')
              /\ location' = "/login"
              /\ \A p \in Protected : Arrive(p, localStorage', reqs').location = "/login"
      /\ (HasItem(localStorage, "jwt_token") /\ ~HasItem(localStorage', "jwt_token"))
           => ~HasItem(localStorage', "isAuthenticated") ]_vars

C14_Witness ==
  /\ out.kind = "logout"
  /\ location = "/login"
  /\ DOMAIN localStorage = {}

\* C15: a protected page mounted while isAuthenticated() is false redirects
\* to /login and issues no request; a protected page is shown on mount only
\* when isAuthenticated() is true.
C15_ProtectedMountRequiresSession ==
  [][ (out'.kind = "nav" /\ out'.origin \in Protected)
        => /\ ~isAuthenticated(localStorage)
                => /\ location' = "/login"
                   /\ ~out'.sent
                   /\ reqs' = reqs
           /\ location' \in Protected => isAuthenticated(localStorage) ]_vars

C15_Witness ==
  /\ out.kind = "nav" /\ out.origin \in Protected
  /\ ~isAuthenticated(localStorage)
  /\ location = "/login"
  /\ ~out.sent

\* C16: a pipeline request answered 403, 404 or 500 fails with the fixed
\* message of that status, whatever the body, and the session store is left
\* as it was.
C16_FixedStatusMessages ==
  [][ (out'.kind = "api" /\ out'.resp.status \in {403, 404, 500})
        => /\ ~out'.ok
           /\ out'.err =
                CASE out'.resp.status = 403 ->
                       <<"You do not have permission to perform this action.">>
                  [] out'.resp.status = 404 ->
                       <<"The requested resource was not found.">>
                  [] OTHER -> <<"Server error. Please try again later.">>
           /\ localStorage' = localStorage ]_vars

\* a 500 whose body reads 'Invalid password', and a 404 with a JSON message
C16_Witness ==
  /\ out.kind = "api"
  /\ \/ /\ out.resp.status = 500
        /\ out.resp.body.text = <<"Invalid ", "password">>
        /\ out.err = <<"Server error. Please try again later.">>
     \/ /\ out.resp.status = 404
        /\ out.resp.body.message = <<"no such user">>
        /\ out.err = <<"The requested resource was not found.">>

\* C17: a pipeline request answered with a non-2xx status other than 401,
\* 403, 404 and 500 fails with the message of the JSON body or the text of
\* the body, and with a message that contains the status code when the body
\* offers none.
C17_OtherErrorMessage ==
  [][ (/\ out'.kind = "api"
       /\ out'.resp.status >= 300
       /\ out'.resp.status \notin {401, 403, 404, 500})
        => LET b      == out'.resp.body
               parsed == IF IsJsonType(out'.resp)
                           THEN (IF b.kind = "json" THEN b.message ELSE <<>>)
                           ELSE RawText(b)
           IN  /\ ~out'.ok
               /\ IF parsed # <<>>
                    THEN out'.err = parsed
                    ELSE Includes(out'.err, ToString(out'.resp.status)) ]_vars

\* the present ones of the payload fields id, userId, sub, user_id of a three-part token whose
\* payload decodes
C19_Fields(ls) ==
  IF ~HasItem(ls, "jwt_token") \/ Len(Parts(ls["jwt_token"])) # 3 THEN <<>>
  ELSE LET d == DecodedPayload(Parts(ls["jwt_token"])[2])
       IN  IF ~d.ok THEN <<>>
           ELSE SelectSeq(<<d.id, d.userId, d.sub, d.user_id>>, LAMBDA f : f.present)

\* C19: every history request goes to /files/{userId} with an Authorization
\* header, userId being the first present of id, userId, sub, user_id of the
\* stored token; when the token is absent, has not three parts, does not
\* decode or carries none of the fields, mounting the dashboard fails with
\* 'User ID not found. Please log in again.' and sends nothing.
C19_HistoryScopedByUserId ==
  [][ /\ \A r \in Slots :
           (reqs'[r].origin = "history" /\ reqs'[r].pc = "fetch"
              /\ reqs[r].origin # "history")
             => /\ C19_Fields(localStorage') # <<>>
                /\ reqs'[r].url = <<"/files/">> \o C19_Fields(localStorage')[1].text
                /\ reqs'[r].authorization # <<>>
      /\ (out'.kind = "nav" /\ location' = "/dashboard"
            /\ C19_Fields(localStorage') = <<>>)
           => /\ ~out'.sent
              /\ out'.err = <<"User ID not found. Please log in again.">>
              /\ reqs' = reqs ]_vars

\* C18: analyzeEyeImage sends nothing through the authenticated pipeline,
\* and it fails only when the inference request fails, whatever the session
\* state.
C18_AnalysisBypassesPipeline ==
  [][ /\ \A r \in Slots : reqs'[r].origin = "store" => reqs'[r].pc = "infer"
      /\ (out'.origin = "store" /\ ~out'.ok)
           => /\ out'.kind = "analysis"
              /\ out'.err \in InferenceErrors ]_vars

\* C20: nothing is retried: once the profile page is mounted, no step of
\* it sends GET /users/profile again, neither the failure of the request
\* nor an alert being added to or removed from the notification store.
C20_ProfileFetchedOncePerMount ==
  [][ out'.kind = "profile" => ~out'.sent ]_vars

\* C21: a failed image analysis is surfaced as exactly one visible alert:
\* after the step in which the failure is handled an alert with the error
\* is visible (never zero), and the step has added at most one alert.
C21_FailureSurfacedOnce ==
  [][ (ret'.op = "add" /\ ret'.type = "error" /\ ret'.message = MsgAnalysisError)
        => /\ \E i \in 1..Len(alerts') : /\ alerts'[i].message = MsgAnalysisError
                                         /\ alerts'[i].type = "error"
           /\ Len(alerts') <= Len(alerts) + 1 ]_vars

\* an analysis of the dashboard is in flight
C27_AnalysisInFlight == \E u \in UploadSlots : uploads[u].pc = "analyzing"

\* C26: once no analysis is in flight any more, the analysis result shown,
\* if there is one, is that of the image uploaded last, in whatever order
\* the analyses have answered.
C26_ResultOfLatestUpload ==
  (~C27_AnalysisInFlight /\ dash.analysisResult # "none")
    => dash.analysisResult = "latest"

\* C27: isAnalyzing is true exactly in the states in which an analysis is
\* in flight.
C27_IsAnalyzingWhileInFlight ==
  dash.isAnalyzing <=> C27_AnalysisInFlight

\* C22: when the 15-second timer of the history fetch wins the race,
\* isLoading returns to false, the history shown is empty and the timeout
\* error alert is visible; an answer that arrives after the timeout
\* changes neither the history shown nor isLoading.
C22_HistoryTimeoutGuard ==
  [][ /\ (ret'.op = "add" /\ ret'.message = MsgHistoryTimeout)
           => /\ ~dash'.isLoading
              /\ dash'.analysisHistory = "empty"
              /\ \E i \in 1..Len(alerts') : /\ alerts'[i].message = MsgHistoryTimeout
                                            /\ alerts'[i].type = "error"
      /\ (out'.kind = "late" /\ reqs' # reqs) => dash' = dash ]_vars

\* the step in which validateFile refuses a file offered to the upload zone
C23_Refusal ==
  /\ out'.origin = "file"
  /\ out'.kind \in {"select", "drop"}
  /\ ret'.op = "add"
  /\ ret'.type = "error"
  /\ ret'.message = out'.err

\* what the refusal of a file larger than 5MB does: no analysis starts and
\* no request is issued, the file is not selected, and the message of the
\* 5MB limit is shown in the upload zone and as a visible alert
C23_RejectedCiting5MB ==
  /\ uploads' = uploads
  /\ reqs' = reqs
  /\ dash'.selectedFile # out'.file
  /\ dash'.error = MsgFileTooLarge
  /\ \E i \in 1..Len(alerts') : /\ alerts'[i].message = MsgFileTooLarge
                                /\ alerts'[i].type = "error"

\* C23 as stated: an image file larger than 5MB, of whatever format, is
\* rejected before any network call with the message of the 5MB limit.
C23_AnyImageOver5MB ==
  [][ /\ dash'.selectedFile.size <= MaxFileBytes
      /\ (C23_Refusal /\ out'.file.size > MaxFileBytes) => C23_RejectedCiting5MB ]_vars

\* C23: a JPEG or PNG file larger than 5MB is rejected by the client-side
\* validation before any network call, with the message of the 5MB limit;
\* no file larger than 5MB is ever selected, hence none is ever submitted.
C23_OversizedImageRejected ==
  [][ /\ dash'.selectedFile.size <= MaxFileBytes
      /\ (out'.kind = "submit" /\ out'.sent) => out'.file.size <= MaxFileBytes
      /\ (C23_Refusal /\ out'.file.size > MaxFileBytes /\ out'.file.type \in ValidTypes)
           => C23_RejectedCiting5MB ]_vars

C23_Witness ==
  /\ out.kind = "select"
  /\ out.file = [type |-> "image/jpeg", size |-> 6 * 1024 * 1024]
  /\ dash.error = MsgFileTooLarge
  /\ dash.selectedFile = NoFile
  /\ \E i \in 1..Len(alerts) : alerts[i].message = MsgFileTooLarge
  /\ \A u \in UploadSlots : uploads[u].pc = "free"

C25_FourClasses ==
  /\ Test(UpperCase, out.value)
  /\ Test(LowerCase, out.value)
  /\ Test(Digits, out.value)
  /\ TestNonAlnum(out.value)

C30_ChecklistAgreesWithValidator ==
  out.kind = "password"
    => (out.ok <=> /\ out.requirements.length
                   /\ out.requirements.uppercase
                   /\ out.requirements.lowercase
                   /\ out.requirements.number
                   /\ out.requirements.special)

\* C28: a failed login leaves the session store exactly as it was: no
\* step of login changes localStorage, the stored token and the
\* authenticated flag included, except the one in which login resolves.
C28_FailedLoginKeepsStore ==
  [][ (lg' # lg /\ ~(out'.kind = "login" /\ out'.ok))
        => localStorage' = localStorage ]_vars

C28_Witness ==
  /\ out.kind = "login"
  /\ ~out.ok
  /\ out.resp = Response(200, "json", JsonBody(<<"welcome">>, <<>>, <<>>))
  /\ out.err = MsgProcessAuth
  /\ lg = IdleLogin
  /\ HasItem(localStorage, "jwt_token")

\* the number of registration-success alerts among the alerts as
C29_Shown(as) ==
  Cardinality({i \in 1..Len(as) : as[i].message = MsgRegistered /\ as[i].type = "success"})

\* C29: on the login page reached from a registration the success alert,
\* shown when the page is mounted, is never shown twice at the same time,
\* is gone after the step that dismisses it or in which it expires, and
\* once it is gone no step shows it again.
C29_RegistrationAlertOnce ==
  [][ /\ C29_Shown(alerts') <= 1
      /\ C29_Shown(alerts) = 0 => C29_Shown(alerts') = 0
      /\ (/\ ret'.op \in {"expire", "remove"}
          /\ \E i \in 1..Len(alerts) : /\ alerts[i].id = ret'.id
                                       /\ alerts[i].message = MsgRegistered)
           => C29_Shown(alerts') = 0 ]_vars

====
